---- MODULE Spec2Model ----
(***************************************************************************)
(* ParKaro: the booking lifecycle of src/core/views.py and the two         *)
(* management commands, as a state machine over the database rows.         *)
(*                                                                         *)
(* Every ORM statement is one database statement in autocommit mode        *)
(* (settings.py sets no ATOMIC_REQUESTS and no view opens a transaction),  *)
(* so every statement is one atomic step and requests served by different  *)
(* workers interleave between statements.                                  *)
(*                                                                         *)
(* Units: time is minutes since Monday 00:00 local time; hours are kept in *)
(* hundredths (DecimalField decimal_places=2); money is kept in paise      *)
(* (hundredths of a rupee); multipliers and percentages in hundredths.     *)
(***************************************************************************)
EXTENDS Integers, Sequences, FiniteSets, TLC

VARIABLES
    bookings,     \* table core_booking: sequence of rows, id = index
    payments,     \* table core_payment
    extensions,   \* table core_bookingextension
    fines,        \* table core_fine
    logs,         \* table core_entryexitlog
    notifications,\* table core_notificationlog
    rules,        \* table core_dynamicpricingrule (administrative data)
    policies,     \* table core_cancellationpolicy (administrative data)
    slot_status,  \* column status of table core_parkingslot, per slot
    maintenance,  \* table core_maintenanceslotlog
    now,          \* timezone.now()
    req,          \* per worker: the request it is serving and its locals
    started       \* number of requests started so far

vars == <<bookings, payments, extensions, fines, logs, notifications, rules, policies,
          slot_status, maintenance, now, req, started>>

(***************************************************************************)
(* Bounds of the model.                                                    *)
(***************************************************************************)
MaxBookings == 2
MaxRequests == 4
MaxTicks == 2
\* requests of the pricing and of the refund specification
MaxPriceRequests == 2
\* requests of the extension specification
MaxExtendRequests == 3
MaxLiveRequests == 3
MaxAdminRequests == 3
MaxMaintenanceLogs == 1

Workers == {1, 2}

\* None / SQL NULL in a nullable column.
NULL == -1

(***************************************************************************)
(* Program constants.                                                      *)
(***************************************************************************)
STATUS_PENDING_PAYMENT == "PENDING_PAYMENT"
STATUS_CONFIRMED == "CONFIRMED"
STATUS_CANCELLED == "CANCELLED"
STATUS_COMPLETED == "COMPLETED"
STATUS_NO_SHOW == "NO_SHOW"

STATUS_SUCCESS == "SUCCESS"
STATUS_REFUNDED == "REFUNDED"

STATUS_UNPAID == "UNPAID"
STATUS_PAID == "PAID"

EVENT_ENTRY == "ENTRY"
EVENT_EXIT == "EXIT"

\* ParkingSlot.STATUS_*
SLOT_AVAILABLE == "AVAILABLE"
SLOT_BOOKED == "BOOKED"
SLOT_MAINTENANCE == "MAINTENANCE"
SLOT_TEMP_BLOCKED == "TEMP_BLOCKED"
SlotStatuses == {SLOT_AVAILABLE, SLOT_BOOKED, SLOT_MAINTENANCE, SLOT_TEMP_BLOCKED}

TYPE_EXPIRY_REMINDER == "EXPIRY_REMINDER"
TYPE_FINE_ALERT == "FINE_ALERT"

\* timedelta(minutes=10) of the reservation hold
ReservationMinutes == 10
\* reminder_window_end = now + timedelta(minutes=30)
ReminderMinutes == 30
\* "if booking.duration_hours_booked >= 8", in hundredths of an hour
DailyThreshold == 8 * 100

(***************************************************************************)
(* Administrative data: locations and slots.                                *)
(***************************************************************************)
Locations == {1, 2}
Slots == {1, 2}

\* ParkingSlot.location
SlotLocation(slot) == IF slot = 1 THEN 1 ELSE 2

\* ParkingLocation.base_rate_per_hour, in rupees
base_rate_per_hour(loc) == IF loc = 1 THEN 100 ELSE 80

\* ParkingLocation.base_rate_per_day, in rupees
base_rate_per_day(loc) == IF loc = 1 THEN 600 ELSE 500

(***************************************************************************)
(* Time.                                                                   *)
(***************************************************************************)
MinutesPerDay == 24 * 60

\* datetime.weekday(): 0 = Monday
weekday(t) == (t \div MinutesPerDay) % 7

\* datetime.time(): minutes since midnight
timeOfDay(t) == t % MinutesPerDay

\* The clock starts Monday 09:00 and advances two hours per tick.
StartNow == 9 * 60
TickMinutes == 2 * 60

(***************************************************************************)
(* Arithmetic.                                                             *)
(***************************************************************************)
Max(S) == CHOOSE x \in S : \A y \in S : y <= x

\* Python round() and Decimal quantize (ROUND_HALF_EVEN) of n/d, n >= 0, d > 0
RoundHalfEven(n, d) ==
    LET q == n \div d
        r == n % d
    IN  IF 2 * r < d THEN q
        ELSE IF 2 * r > d THEN q + 1
        ELSE IF q % 2 = 0 THEN q ELSE q + 1

(***************************************************************************)
(* Rows.                                                                   *)
(***************************************************************************)
\* A Booking with no column set (the object of a worker that holds none).
NoBooking ==
    [slot |-> NULL, status |-> "", entry_datetime_expected |-> NULL,
     exit_datetime_expected |-> NULL, actual_entry_datetime |-> NULL,
     actual_exit_datetime |-> NULL, duration_hours_booked |-> 0,
     amount_expected |-> 0, amount_paid |-> 0, reservation_expires_at |-> NULL]

\* A worker serving no request.
IdleReq ==
    [op |-> "none", pc |-> "idle", outcome |-> "none", bid |-> NULL,
     obj |-> NoBooking, new_exit |-> NULL, extra_hours |-> 0, extra_amount |-> 0,
     pct |-> 0, multiplier |-> 0, payment |-> NULL, todo |-> <<>>,
     current_status |-> <<>>]

\* A worker takes a new request when it serves none; the workers are
\* interchangeable, so the first free one takes it.
Free(w) ==
    /\ req[w].pc \in {"idle", "done"}
    /\ \A v \in Workers : req[v].pc \in {"idle", "done"} => w <= v

\* Worker w begins to serve request r; the answers of ended requests have been
\* delivered and are forgotten.
Begin(w, r) ==
    [v \in Workers |-> IF v = w THEN r
                       ELSE IF req[v].pc = "done" THEN IdleReq ELSE req[v]]

\* A request that has ended: its locals are gone, what it answered remains.
Done(r, outcome) ==
    [IdleReq EXCEPT !.op = r.op, !.pc = "done", !.outcome = outcome, !.bid = r.bid,
                    !.pct = r.pct]

\* Rows a create between its overlap check and its INSERT will still add.
PendingInserts == Cardinality({w \in Workers : req[w].op = "create" /\ req[w].pc = "insert"})

BookingIds == 1..Len(bookings)

(***************************************************************************)
(* Pricing (create_booking, lines 165-185; extend_booking, lines 504-515). *)
(***************************************************************************)
\* round((exit_ - entry).total_seconds() / 3600, 2), in hundredths of an hour
duration_hours(entry, exit) == RoundHalfEven((exit - entry) * 100, 60)

\* DynamicPricingRule.objects.filter(location=location, day_of_week=t.weekday())
\* and the loop "if rule.start_time <= t.time() <= rule.end_time"
MatchingRules(loc, t) ==
    {r \in rules : /\ r.location = loc
                   /\ r.day_of_week = weekday(t)
                   /\ r.start_time <= timeOfDay(t)
                   /\ timeOfDay(t) <= r.end_time}

\* create_booking: multiplier = 1.0; for rule in rules: multiplier = max(multiplier,
\* float(rule.multiplier)), keyed on the entry; in hundredths
CreateMultiplier(loc, entry) == Max({100} \cup {r.multiplier : r \in MatchingRules(loc, entry)})

\* extend_booking: the same loop over the rules of new_exit.weekday(), keyed on
\* new_exit.time()
ExtendMultiplier(loc, new_exit) ==
    Max({100} \cup {r.multiplier : r \in MatchingRules(loc, new_exit)})

\* days = (duration / 24) or 1; round(days)
Days(duration) == IF duration = 0 THEN 1 ELSE RoundHalfEven(duration, 24 * 100)

\* Mutant of AmountExpected: the hourly branch leaves the multiplier out.
AmountExpectedFlat(loc, duration, multiplier) ==
    IF duration >= DailyThreshold
    THEN base_rate_per_day(loc) * Days(duration) * 100
    ELSE RoundHalfEven(duration * base_rate_per_hour(loc) * 100, 100)

\* booking.amount_expected as the DecimalField stores it, in paise
AmountExpected(loc, duration, multiplier) ==
    IF duration >= DailyThreshold
    THEN base_rate_per_day(loc) * Days(duration) * 100
    ELSE RoundHalfEven(duration * base_rate_per_hour(loc) * multiplier, 100)

\* Mutant of ExtraAmount: the daily rate of create applied to an extension.
ExtraAmountDaily(loc, extra_hours, multiplier) ==
    IF extra_hours >= DailyThreshold
    THEN base_rate_per_day(loc) * Days(extra_hours) * 100
    ELSE RoundHalfEven(extra_hours * base_rate_per_hour(loc) * multiplier, 100)

\* extra_amount = extra_hours * base_rate * multiplier, in paise
ExtraAmount(loc, extra_hours, multiplier) ==
    RoundHalfEven(extra_hours * base_rate_per_hour(loc) * multiplier, 100)

(***************************************************************************)
(* create_booking                                                          *)
(***************************************************************************)
\* Mutant of CreateOverlapping: __lte / __gte, windows that touch conflict.
CreateOverlappingClosed(slot, entry, exit) ==
    \E i \in BookingIds :
        /\ bookings[i].slot = slot
        /\ bookings[i].status = STATUS_CONFIRMED
        /\ bookings[i].entry_datetime_expected <= exit
        /\ bookings[i].exit_datetime_expected >= entry

\* Booking.objects.filter(slot=slot, status=CONFIRMED,
\*     entry_datetime_expected__lt=exit, exit_datetime_expected__gt=entry).exists()
CreateOverlapping(slot, entry, exit) ==
    \E i \in BookingIds :
        /\ bookings[i].slot = slot
        /\ bookings[i].status = STATUS_CONFIRMED
        /\ bookings[i].entry_datetime_expected < exit
        /\ bookings[i].exit_datetime_expected > entry

\* The Booking object built by form.save(commit=False) and priced.
NewBooking(slot, entry, exit) ==
    LET loc == SlotLocation(slot)
        d == duration_hours(entry, exit)
    IN  [NoBooking EXCEPT
            !.slot = slot, !.status = STATUS_PENDING_PAYMENT,
            !.entry_datetime_expected = entry, !.exit_datetime_expected = exit,
            !.duration_hours_booked = d,
            !.amount_expected = AmountExpected(loc, d, CreateMultiplier(loc, entry))]

\* Mutant of BookingFormRejects: a window of no length passes the form.
BookingFormRejectsStrict(entry, exit) == exit < entry

\* BookingForm.clean: "if entry and exit_ and exit_ <= entry: raise ValidationError"
BookingFormRejects(entry, exit) == exit <= entry

\* A create that also refuses a slot whose stored status is not AVAILABLE.
CreateCheckStoredStatus(w, slot, entry, exit) ==
    /\ Free(w)
    /\ started < MaxRequests
    /\ Len(bookings) + PendingInserts < MaxBookings
    /\ started' = started + 1
    /\ LET r == [IdleReq EXCEPT !.op = "create", !.obj = NewBooking(slot, entry, exit),
                                !.multiplier = CreateMultiplier(SlotLocation(slot), entry)]
       IN  req' = Begin(w,
                IF BookingFormRejects(entry, exit) THEN Done(r, "invalid")
                ELSE IF slot_status[slot] # SLOT_AVAILABLE THEN Done(r, "conflict")
                ELSE IF CreateOverlapping(slot, entry, exit) THEN Done(r, "conflict")
                ELSE [r EXCEPT !.pc = "insert"])
    /\ UNCHANGED <<slot_status, maintenance, bookings, payments, extensions, fines, logs, notifications, rules, policies, now>>

\* POST: BookingForm.clean, the overlap query and the pricing.
CreateCheck(w, slot, entry, exit) ==
    /\ Free(w)
    /\ started < MaxRequests
    /\ Len(bookings) + PendingInserts < MaxBookings
    /\ started' = started + 1
    /\ LET r == [IdleReq EXCEPT !.op = "create", !.obj = NewBooking(slot, entry, exit),
                                !.multiplier = CreateMultiplier(SlotLocation(slot), entry)]
       IN  req' = Begin(w,
                IF BookingFormRejects(entry, exit) THEN Done(r, "invalid")
                ELSE IF CreateOverlapping(slot, entry, exit) THEN Done(r, "conflict")
                ELSE [r EXCEPT !.pc = "insert"])
    /\ UNCHANGED <<slot_status, maintenance, bookings, payments, extensions, fines, logs, notifications, rules, policies, now>>

\* booking.status = PENDING_PAYMENT; amount_paid = 0; expiry = now + 10 min; save()
CreateInsert(w) ==
    /\ req[w].op = "create" /\ req[w].pc = "insert"
    /\ LET o == [req[w].obj EXCEPT !.status = STATUS_PENDING_PAYMENT, !.amount_paid = 0,
                                   !.reservation_expires_at = now + ReservationMinutes]
       IN  /\ bookings' = Append(bookings, o)
           /\ req' = [req EXCEPT ![w].obj = o, ![w].bid = Len(bookings) + 1, ![w].pc = "pay"]
    /\ UNCHANGED <<slot_status, maintenance, payments, extensions, fines, logs, notifications, rules, policies, now, started>>

\* Payment.objects.create(booking, amount=amount_expected, status=SUCCESS)
CreatePayment(w) ==
    /\ req[w].op = "create" /\ req[w].pc = "pay"
    /\ payments' = Append(payments, [booking |-> req[w].bid,
                                     amount |-> req[w].obj.amount_expected,
                                     status |-> STATUS_SUCCESS])
    /\ req' = [req EXCEPT ![w].pc = "confirm", ![w].payment = Len(payments) + 1]
    /\ UNCHANGED <<slot_status, maintenance, bookings, extensions, fines, logs, notifications, rules, policies, now, started>>

\* The INSERT of the Payment raises (database error): the view has no handler
\* and no transaction, the request ends with a server error.
CreatePaymentFails(w) ==
    /\ req[w].op = "create" /\ req[w].pc = "pay"
    /\ req' = [req EXCEPT ![w] = Done(req[w], "error")]
    /\ UNCHANGED <<slot_status, maintenance, bookings, payments, extensions, fines, logs, notifications, rules, policies, now, started>>

\* Mutant of CreateConfirm: the payment is credited twice.
CreateConfirmPaysTwice(w) ==
    /\ req[w].op = "create" /\ req[w].pc = "confirm"
    /\ LET o == [req[w].obj EXCEPT !.status = STATUS_CONFIRMED,
                                   !.amount_paid = 2 * req[w].obj.amount_expected,
                                   !.reservation_expires_at = NULL]
       IN  /\ bookings' = [bookings EXCEPT ![req[w].bid] = o]
           /\ req' = [req EXCEPT ![w].obj = o, ![w].pc = "ticket"]
    /\ UNCHANGED <<slot_status, maintenance, payments, extensions, fines, logs, notifications, rules, policies, now, started>>

\* Mutant of CreateConfirm: the reservation expiry is not cleared.
CreateConfirmKeepsExpiry(w) ==
    /\ req[w].op = "create" /\ req[w].pc = "confirm"
    /\ LET o == [req[w].obj EXCEPT !.status = STATUS_CONFIRMED,
                                   !.amount_paid = req[w].obj.amount_expected]
       IN  /\ bookings' = [bookings EXCEPT ![req[w].bid] = o]
           /\ req' = [req EXCEPT ![w].obj = o, ![w].pc = "ticket"]
    /\ UNCHANGED <<slot_status, maintenance, payments, extensions, fines, logs, notifications, rules, policies, now, started>>

\* A confirm that also stores BOOKED in the status of the slot.
CreateConfirmMarksBooked(w) ==
    /\ req[w].op = "create" /\ req[w].pc = "confirm"
    /\ LET o == [req[w].obj EXCEPT !.status = STATUS_CONFIRMED,
                                   !.amount_paid = req[w].obj.amount_expected,
                                   !.reservation_expires_at = NULL]
       IN  /\ bookings' = [bookings EXCEPT ![req[w].bid] = o]
           /\ req' = [req EXCEPT ![w].obj = o, ![w].pc = "ticket"]
    /\ slot_status' = [slot_status EXCEPT ![req[w].obj.slot] = SLOT_BOOKED]
    /\ UNCHANGED <<maintenance, payments, extensions, fines, logs, notifications, rules, policies, now, started>>

\* status = CONFIRMED; amount_paid = amount_expected; expiry = None; save()
\* save() without update_fields writes every column of the in-memory object.
CreateConfirm(w) ==
    /\ req[w].op = "create" /\ req[w].pc = "confirm"
    /\ LET o == [req[w].obj EXCEPT !.status = STATUS_CONFIRMED,
                                   !.amount_paid = req[w].obj.amount_expected,
                                   !.reservation_expires_at = NULL]
       IN  /\ bookings' = [bookings EXCEPT ![req[w].bid] = o]
           /\ req' = [req EXCEPT ![w].obj = o, ![w].pc = "ticket"]
    /\ UNCHANGED <<slot_status, maintenance, payments, extensions, fines, logs, notifications, rules, policies, now, started>>

\* qrcode.make(...); booking.qr_code_image.save(file_name, content) saves the
\* whole object once more; send_mail(fail_silently=True); success message.
CreateTicket(w) ==
    /\ req[w].op = "create" /\ req[w].pc = "ticket"
    /\ bookings' = [bookings EXCEPT ![req[w].bid] = req[w].obj]
    /\ req' = [req EXCEPT ![w] = Done(req[w], "success")]
    /\ UNCHANGED <<slot_status, maintenance, payments, extensions, fines, logs, notifications, rules, policies, now, started>>

\* The QR image cannot be made or stored: the exception leaves the view.
CreateTicketFails(w) ==
    /\ req[w].op = "create" /\ req[w].pc = "ticket"
    /\ req' = [req EXCEPT ![w] = Done(req[w], "error")]
    /\ UNCHANGED <<slot_status, maintenance, bookings, payments, extensions, fines, logs, notifications, rules, policies, now, started>>

(***************************************************************************)
(* extend_booking                                                          *)
(***************************************************************************)
\* Mutant of ExtendOverlapping: entry_datetime_expected__lte, a neighbour that
\* starts at new_exit conflicts.
ExtendOverlappingClosed(b, slot, current_exit, new_exit) ==
    \E i \in BookingIds \ {b} :
        /\ bookings[i].slot = slot
        /\ bookings[i].status = STATUS_CONFIRMED
        /\ bookings[i].entry_datetime_expected <= new_exit
        /\ bookings[i].exit_datetime_expected > current_exit

\* Booking.objects.filter(slot=booking.slot, status=CONFIRMED,
\*     entry_datetime_expected__lt=new_exit,
\*     exit_datetime_expected__gt=booking.exit_datetime_expected).exclude(id=booking.id)
ExtendOverlapping(b, slot, current_exit, new_exit) ==
    \E i \in BookingIds \ {b} :
        /\ bookings[i].slot = slot
        /\ bookings[i].status = STATUS_CONFIRMED
        /\ bookings[i].entry_datetime_expected < new_exit
        /\ bookings[i].exit_datetime_expected > current_exit

\* Decimal + float and Decimal * float raise TypeError in Python: a DecimalField
\* read from the database is a decimal.Decimal, the amounts computed by the
\* views are float.
DecimalFloatTypeError == TRUE

\* get_object_or_404(Booking, pk, user, status=CONFIRMED); parse_datetime(new_exit);
\* "if not new_exit or new_exit <= booking.exit_datetime_expected".
\* aware: whether the posted string carries a UTC offset. A naive datetime cannot
\* be compared with the timezone-aware column (USE_TZ = True): TypeError.
ExtendLoad(w, b, new_exit, aware) ==
    /\ Free(w)
    /\ started < MaxRequests
    /\ started' = started + 1
    /\ LET r == [IdleReq EXCEPT !.op = "extend", !.bid = b, !.obj = bookings[b],
                                !.new_exit = new_exit]
       IN  req' = Begin(w,
                IF bookings[b].status # STATUS_CONFIRMED THEN Done(r, "notfound")
                ELSE IF ~aware THEN Done(r, "error")
                ELSE IF new_exit <= bookings[b].exit_datetime_expected THEN Done(r, "invalid")
                ELSE [r EXCEPT !.pc = "check"])
    /\ UNCHANGED <<slot_status, maintenance, bookings, payments, extensions, fines, logs, notifications, rules, policies, now>>

\* The overlap query, then extra_hours and extra_amount.
ExtendCheck(w) ==
    /\ req[w].op = "extend" /\ req[w].pc = "check"
    /\ LET o == req[w].obj
           loc == SlotLocation(o.slot)
           h == duration_hours(o.exit_datetime_expected, req[w].new_exit)
       IN  req' = [req EXCEPT ![w] =
                IF ExtendOverlapping(req[w].bid, o.slot, o.exit_datetime_expected, req[w].new_exit)
                THEN Done(req[w], "conflict")
                ELSE [req[w] EXCEPT !.pc = "pay", !.extra_hours = h,
                         !.multiplier = ExtendMultiplier(loc, req[w].new_exit),
                         !.extra_amount = ExtraAmount(loc, h, ExtendMultiplier(loc, req[w].new_exit))]]
    /\ UNCHANGED <<slot_status, maintenance, bookings, payments, extensions, fines, logs, notifications, rules, policies, now, started>>

\* Mutant of ExtendPayment: the extra amount is added to the Payment the booking
\* already has instead of being a row of its own.
ExtendPaymentEdits(w) ==
    /\ req[w].op = "extend" /\ req[w].pc = "pay"
    /\ \E k \in 1..Len(payments) :
          /\ payments[k].booking = req[w].bid
          /\ \A j \in 1..Len(payments) : payments[j].booking = req[w].bid => k <= j
          /\ payments' = [payments EXCEPT ![k].amount = @ + req[w].extra_amount]
          /\ req' = [req EXCEPT ![w].pc = "ext", ![w].payment = k]
    /\ UNCHANGED <<slot_status, maintenance, bookings, extensions, fines, logs, notifications, rules, policies, now, started>>

\* Payment.objects.create(booking, amount=extra_amount, status=SUCCESS)
ExtendPayment(w) ==
    /\ req[w].op = "extend" /\ req[w].pc = "pay"
    /\ payments' = Append(payments, [booking |-> req[w].bid,
                                     amount |-> req[w].extra_amount,
                                     status |-> STATUS_SUCCESS])
    /\ req' = [req EXCEPT ![w].pc = "ext", ![w].payment = Len(payments) + 1]
    /\ UNCHANGED <<slot_status, maintenance, bookings, extensions, fines, logs, notifications, rules, policies, now, started>>

\* BookingExtension.objects.create(booking, extra_hours, extra_amount, payment)
ExtendExtension(w) ==
    /\ req[w].op = "extend" /\ req[w].pc = "ext"
    /\ extensions' = Append(extensions, [booking |-> req[w].bid,
                                         extra_hours |-> req[w].extra_hours,
                                         extra_amount |-> req[w].extra_amount,
                                         payment |-> req[w].payment])
    /\ req' = [req EXCEPT ![w].pc = "save"]
    /\ UNCHANGED <<slot_status, maintenance, bookings, payments, fines, logs, notifications, rules, policies, now, started>>

\* booking.exit_datetime_expected = new_exit
\* booking.amount_expected += extra_amount      <- Decimal += float: TypeError
\* booking.amount_paid += extra_amount
\* booking.save(update_fields=[exit_datetime_expected, amount_expected, amount_paid])
ExtendSave(w) ==
    /\ req[w].op = "extend" /\ req[w].pc = "save"
    /\ IF DecimalFloatTypeError
       THEN /\ req' = [req EXCEPT ![w] = Done(req[w], "error")]
            /\ UNCHANGED bookings
       ELSE LET o == req[w].obj
                n == [o EXCEPT !.exit_datetime_expected = req[w].new_exit,
                               !.amount_expected = o.amount_expected + req[w].extra_amount,
                               !.amount_paid = o.amount_paid + req[w].extra_amount]
            IN  /\ bookings' = [bookings EXCEPT
                        ![req[w].bid].exit_datetime_expected = n.exit_datetime_expected,
                        ![req[w].bid].amount_expected = n.amount_expected,
                        ![req[w].bid].amount_paid = n.amount_paid]
                /\ req' = [req EXCEPT ![w] = Done([req[w] EXCEPT !.obj = n], "success")]
    /\ UNCHANGED <<slot_status, maintenance, payments, extensions, fines, logs, notifications, rules, policies, now, started>>

(***************************************************************************)
(* cancel_booking                                                          *)
(***************************************************************************)
\* Mutant of MatchingPolicies: the global policies are left out.
MatchingPoliciesLocal(loc, minutes_before) ==
    {p \in policies : /\ p.location = loc
                      /\ p.min_minutes_before_start <= minutes_before}

\* Mutant of MatchingPolicies: min_minutes_before_start__gte.
MatchingPoliciesAbove(loc, minutes_before) ==
    {p \in policies : /\ p.location \in {loc, NULL}
                      /\ p.min_minutes_before_start >= minutes_before}

\* CancellationPolicy.objects.filter(Q(location=loc) | Q(location__isnull=True),
\*     min_minutes_before_start__lte=minutes_before)
MatchingPolicies(loc, minutes_before) ==
    {p \in policies : /\ p.location \in {loc, NULL}
                      /\ p.min_minutes_before_start <= minutes_before}

\* .order_by("-min_minutes_before_start").first(); float(policy.refund_percentage)
\* if policy else 0.0. Rows with equal thresholds come in an order the query does
\* not fix: any of them may be first.
RefundPercentages(loc, minutes_before) ==
    LET m == MatchingPolicies(loc, minutes_before)
    IN  IF m = {} THEN {0}
        ELSE {p.refund_percentage : p \in
                {q \in m : \A o \in m : o.min_minutes_before_start <= q.min_minutes_before_start}}

\* Mutant of CancelTooLate: a booking that starts this very minute can still be
\* cancelled.
CancelTooLateStrict(entry) == entry < now

\* "if booking.entry_datetime_expected <= now": only future bookings are cancellable
CancelTooLate(entry) == entry <= now

\* get_object_or_404(..., status=CONFIRMED); "if entry_datetime_expected <= now";
\* the policy query; refundable_amount = booking.amount_paid * (pct / 100.0):
\* Decimal * float raises TypeError before anything is written (lines 572-586
\* are never reached).
CancelLoad(w, b) ==
    /\ Free(w)
    /\ started < MaxRequests
    /\ started' = started + 1
    /\ DecimalFloatTypeError
    /\ LET o == bookings[b]
           r == [IdleReq EXCEPT !.op = "cancel", !.bid = b, !.obj = o]
       IN  \E pct \in RefundPercentages(SlotLocation(o.slot), o.entry_datetime_expected - now) :
             req' = Begin(w,
                IF o.status # STATUS_CONFIRMED THEN Done(r, "notfound")
                ELSE IF CancelTooLate(o.entry_datetime_expected) THEN Done(r, "invalid")
                ELSE Done([r EXCEPT !.pct = pct], "error"))
    /\ UNCHANGED <<slot_status, maintenance, bookings, payments, extensions, fines, logs, notifications, rules, policies, now>>

(***************************************************************************)
(* staff_scan_qr                                                           *)
(***************************************************************************)
\* Booking.objects.get(id=booking_id); now = timezone.now(); the branch is
\* chosen on the object as it was read. No test of booking.status.
ScanLoad(w, b) ==
    /\ Free(w)
    /\ started < MaxRequests
    /\ started' = started + 1
    /\ LET o == bookings[b]
           r == [IdleReq EXCEPT !.op = "scan", !.bid = b, !.obj = o]
       IN  req' = Begin(w,
                IF o.actual_entry_datetime = NULL THEN [r EXCEPT !.pc = "entry_save"]
                ELSE IF o.actual_exit_datetime = NULL THEN [r EXCEPT !.pc = "exit_save"]
                ELSE Done(r, "already"))
    /\ UNCHANGED <<slot_status, maintenance, bookings, payments, extensions, fines, logs, notifications, rules, policies, now>>

\* booking.actual_entry_datetime = now; save(update_fields=["actual_entry_datetime"])
ScanEntrySave(w) ==
    /\ req[w].op = "scan" /\ req[w].pc = "entry_save"
    /\ bookings' = [bookings EXCEPT ![req[w].bid].actual_entry_datetime = now]
    /\ req' = [req EXCEPT ![w].pc = "entry_log", ![w].obj.actual_entry_datetime = now]
    /\ UNCHANGED <<slot_status, maintenance, payments, extensions, fines, logs, notifications, rules, policies, now, started>>

\* EntryExitLog.objects.create(booking, event_type=ENTRY)
ScanEntryLog(w) ==
    /\ req[w].op = "scan" /\ req[w].pc = "entry_log"
    /\ logs' = Append(logs, [booking |-> req[w].bid, event_type |-> EVENT_ENTRY])
    /\ req' = [req EXCEPT ![w] = Done(req[w], "entry")]
    /\ UNCHANGED <<slot_status, maintenance, bookings, payments, extensions, fines, notifications, rules, policies, now, started>>

\* An exit that marks the booking NO_SHOW instead of COMPLETED.
ScanExitSaveNoShow(w) ==
    /\ req[w].op = "scan" /\ req[w].pc = "exit_save"
    /\ bookings' = [bookings EXCEPT ![req[w].bid].actual_exit_datetime = now,
                                    ![req[w].bid].status = STATUS_NO_SHOW]
    /\ req' = [req EXCEPT ![w].pc = "exit_log", ![w].obj.actual_exit_datetime = now,
                          ![w].obj.status = STATUS_NO_SHOW]
    /\ UNCHANGED <<slot_status, maintenance, payments, extensions, fines, logs, notifications, rules, policies, now, started>>

\* booking.actual_exit_datetime = now; booking.status = COMPLETED;
\* save(update_fields=["actual_exit_datetime", "status"])
ScanExitSave(w) ==
    /\ req[w].op = "scan" /\ req[w].pc = "exit_save"
    /\ bookings' = [bookings EXCEPT ![req[w].bid].actual_exit_datetime = now,
                                    ![req[w].bid].status = STATUS_COMPLETED]
    /\ req' = [req EXCEPT ![w].pc = "exit_log", ![w].obj.actual_exit_datetime = now,
                          ![w].obj.status = STATUS_COMPLETED]
    /\ UNCHANGED <<slot_status, maintenance, payments, extensions, fines, logs, notifications, rules, policies, now, started>>

\* EntryExitLog.objects.create(booking, event_type=EXIT)
ScanExitLog(w) ==
    /\ req[w].op = "scan" /\ req[w].pc = "exit_log"
    /\ logs' = Append(logs, [booking |-> req[w].bid, event_type |-> EVENT_EXIT])
    /\ req' = [req EXCEPT ![w] = Done(req[w], "exit")]
    /\ UNCHANGED <<slot_status, maintenance, bookings, payments, extensions, fines, notifications, rules, policies, now, started>>

(***************************************************************************)
(* The management commands.                                                *)
(***************************************************************************)
\* The ids of a queryset's rows, in id order.
RECURSIVE InIdOrder(_)
InIdOrder(S) ==
    IF S = {} THEN <<>>
    ELSE LET m == CHOOSE x \in S : \A y \in S : x <= y
         IN  <<m>> \o InIdOrder(S \ {m})

\* The filter without reservation_expires_at__lt=now.
ExpiredAnyTime(i) ==
    bookings[i].status = STATUS_PENDING_PAYMENT

\* Booking.objects.filter(status=PENDING_PAYMENT, reservation_expires_at__lt=now)
Expired(i) ==
    /\ bookings[i].status = STATUS_PENDING_PAYMENT
    /\ bookings[i].reservation_expires_at # NULL
    /\ bookings[i].reservation_expires_at < now

\* The filter without status=CONFIRMED.
OvertimeAnyStatus(i) ==
    bookings[i].exit_datetime_expected < now

\* Booking.objects.filter(status=CONFIRMED, exit_datetime_expected__lt=now)
Overtime(i) ==
    /\ bookings[i].status = STATUS_CONFIRMED
    /\ bookings[i].exit_datetime_expected < now

\* booking.fines.filter(status=UNPAID).exists()
has_unpaid_fine(b) ==
    \E k \in 1..Len(fines) : fines[k].booking = b /\ fines[k].status = STATUS_UNPAID

\* cleanup_reservations: the queryset is read once, when the loop starts.
ExpiryBegin(w) ==
    /\ Free(w)
    /\ LET ids == InIdOrder({i \in BookingIds : Expired(i)})
           r == [IdleReq EXCEPT !.op = "expiry", !.todo = ids]
       IN  req' = Begin(w, IF ids = <<>> THEN Done(r, "success")
                                     ELSE [r EXCEPT !.pc = "expire"])
    /\ UNCHANGED <<slot_status, maintenance, bookings, payments, extensions, fines, logs, notifications, rules, policies, now>>

\* One of the runs of cleanup_reservations that the specification counts.
ExpiryQuery(w) ==
    /\ started < MaxRequests
    /\ started' = started + 1
    /\ ExpiryBegin(w)

\* The loop without its save: the row is taken off the list and left as it is.
ExpiryStepUnsaved(w) ==
    /\ req[w].op = "expiry" /\ req[w].pc = "expire"
    /\ req' = [req EXCEPT ![w] =
            IF Tail(req[w].todo) = <<>> THEN Done(req[w], "success")
            ELSE [req[w] EXCEPT !.todo = Tail(req[w].todo)]]
    /\ UNCHANGED <<slot_status, maintenance, bookings, payments, extensions, fines, logs, notifications, rules, policies, now, started>>

\* booking.status = CANCELLED; booking.save(update_fields=["status"])
ExpiryStep(w) ==
    /\ req[w].op = "expiry" /\ req[w].pc = "expire"
    /\ bookings' = [bookings EXCEPT ![Head(req[w].todo)].status = STATUS_CANCELLED]
    /\ req' = [req EXCEPT ![w] =
            IF Tail(req[w].todo) = <<>> THEN Done(req[w], "success")
            ELSE [req[w] EXCEPT !.todo = Tail(req[w].todo)]]
    /\ UNCHANGED <<slot_status, maintenance, payments, extensions, fines, logs, notifications, rules, policies, now, started>>

\* Booking.objects.filter(status=CONFIRMED, exit_datetime_expected__gte=now,
\*     exit_datetime_expected__lte=now + timedelta(minutes=30))
Reminded(i) ==
    /\ bookings[i].status = STATUS_CONFIRMED
    /\ bookings[i].exit_datetime_expected >= now
    /\ bookings[i].exit_datetime_expected <= now + ReminderMinutes

\* The NotificationLog rows of one loop, one per booking of ids, in order.
Notices(type, ids) ==
    [k \in 1..Len(ids) |-> [notification_type |-> type, booking |-> ids[k]]]

\* process_parking_automation, the reminders: one NotificationLog(EXPIRY_REMINDER)
\* per CONFIRMED booking that ends within 30 minutes. No code reads the
\* notification table, so the query and its inserts are taken as one step.
ReminderQuery(w) ==
    /\ Free(w)
    /\ started < MaxRequests
    /\ started' = started + 1
    /\ LET ids == InIdOrder({i \in BookingIds : Reminded(i)})
       IN  notifications' = notifications \o Notices(TYPE_EXPIRY_REMINDER, ids)
    /\ req' = Begin(w, [IdleReq EXCEPT !.op = "overtime", !.pc = "overtime_query"])
    /\ UNCHANGED <<slot_status, maintenance, bookings, payments, extensions, fines, logs, rules, policies, now>>

\* process_parking_automation: overtime_bookings, read once when the loop starts.
OvertimeQuery(w) ==
    /\ req[w].op = "overtime" /\ req[w].pc = "overtime_query"
    /\ LET ids == InIdOrder({i \in BookingIds : Overtime(i)})
       IN  req' = [req EXCEPT ![w] =
                IF ids = <<>> THEN Done(req[w], "success")
                ELSE [req[w] EXCEPT !.pc = "fine_check", !.todo = ids]]
    /\ UNCHANGED <<slot_status, maintenance, bookings, payments, extensions, fines, logs, notifications, rules, policies,
                   now, started>>

\* has_unpaid_fine = booking.fines.filter(status=UNPAID).exists(); continue
OvertimeCheck(w) ==
    /\ req[w].op = "overtime" /\ req[w].pc = "fine_check"
    /\ req' = [req EXCEPT ![w] =
            IF ~has_unpaid_fine(Head(req[w].todo)) THEN [req[w] EXCEPT !.pc = "fine_create"]
            ELSE IF Tail(req[w].todo) = <<>> THEN Done(req[w], "success")
            ELSE [req[w] EXCEPT !.todo = Tail(req[w].todo)]]
    /\ UNCHANGED <<slot_status, maintenance, bookings, payments, extensions, fines, logs, notifications, rules, policies, now, started>>

\* Fine.objects.create(booking, amount=location.base_rate_per_hour, status=UNPAID);
\* send_mail(fail_silently=True); NotificationLog.objects.create(FINE_ALERT)
OvertimeFine(w) ==
    /\ req[w].op = "overtime" /\ req[w].pc = "fine_create"
    /\ LET b == Head(req[w].todo)
       IN  fines' = Append(fines, [booking |-> b,
                                   amount |-> base_rate_per_hour(SlotLocation(bookings[b].slot)) * 100,
                                   status |-> STATUS_UNPAID])
    /\ req' = [req EXCEPT ![w] =
            IF Tail(req[w].todo) = <<>> THEN Done(req[w], "success")
            ELSE [req[w] EXCEPT !.todo = Tail(req[w].todo), !.pc = "fine_check"]]
    /\ notifications' = Append(notifications,
                               [notification_type |-> TYPE_FINE_ALERT, booking |-> Head(req[w].todo)])
    /\ UNCHANGED <<slot_status, maintenance, bookings, payments, extensions, logs, rules, policies, now, started>>

(***************************************************************************)
(* location_detail: the live status of the slots of a location.            *)
(***************************************************************************)
\* MaintenanceSlotLog.objects.filter(slot=slot, start_datetime__lte=now)
\*     .filter(Q(end_datetime__isnull=True) | Q(end_datetime__gte=now)).exists()
has_maintenance(slot) ==
    \E k \in 1..Len(maintenance) :
        /\ maintenance[k].slot = slot
        /\ maintenance[k].start_datetime <= now
        /\ (maintenance[k].end_datetime = NULL \/ maintenance[k].end_datetime >= now)

\* Booking.objects.filter(slot=slot, status=CONFIRMED,
\*     entry_datetime_expected__lte=now, exit_datetime_expected__gte=now).exists()
has_active_booking(slot) ==
    \E i \in BookingIds :
        /\ bookings[i].slot = slot
        /\ bookings[i].status = STATUS_CONFIRMED
        /\ bookings[i].entry_datetime_expected <= now
        /\ bookings[i].exit_datetime_expected >= now

\* slot.current_status, as the loop of location_detail sets it
current_status(slot) ==
    IF has_maintenance(slot) THEN SLOT_MAINTENANCE
    ELSE IF has_active_booking(slot) THEN SLOT_BOOKED
    ELSE SLOT_AVAILABLE

\* GET: the page of a location, with the live status of each of its slots.
\* The view only reads: it is taken as one step.
LocationDetail(w, loc) ==
    /\ Free(w)
    /\ started < MaxRequests
    /\ started' = started + 1
    /\ LET r == [IdleReq EXCEPT !.op = "detail"]
           shown == [slot \in {x \in Slots : SlotLocation(x) = loc} |-> current_status(slot)]
       IN  req' = Begin(w, [Done(r, "shown") EXCEPT !.current_status = shown])
    /\ UNCHANGED <<slot_status, maintenance, bookings, payments, extensions, fines, logs,
                   notifications, rules, policies, now>>

(***************************************************************************)
(* The administration site.                                                *)
(***************************************************************************)
\* ParkingSlotAdmin.mark_as_maintenance on a queryset of one slot: a
\* MaintenanceSlotLog from now with no end, then slot.status = MAINTENANCE,
\* save(update_fields=["status"]). No view reads the stored status, so the two
\* writes are taken as one step.
mark_as_maintenance(slot) ==
    /\ Len(maintenance) < MaxMaintenanceLogs
    /\ maintenance' = Append(maintenance,
                             [slot |-> slot, start_datetime |-> now, end_datetime |-> NULL])
    /\ slot_status' = [slot_status EXCEPT ![slot] = SLOT_MAINTENANCE]
    /\ UNCHANGED <<bookings, payments, extensions, fines, logs, notifications, rules, policies,
                   now, req, started>>

\* ParkingSlotAdmin.mark_as_available: queryset.update(status=AVAILABLE); the
\* maintenance logs are left as they are.
mark_as_available(slot) ==
    /\ slot_status' = [slot_status EXCEPT ![slot] = SLOT_AVAILABLE]
    /\ UNCHANGED <<maintenance, bookings, payments, extensions, fines, logs, notifications, rules,
                   policies, now, req, started>>

\* The change form of ParkingSlotAdmin: any of the STATUS_CHOICES.
ParkingSlotAdminChange(slot, status) ==
    /\ slot_status' = [slot_status EXCEPT ![slot] = status]
    /\ UNCHANGED <<maintenance, bookings, payments, extensions, fines, logs, notifications, rules,
                   policies, now, req, started>>

\* The add form of MaintenanceSlotLogAdmin: a log with the start and the end
\* (or no end) that the administrator enters.
MaintenanceSlotLogAdminAdd(slot, start, end) ==
    /\ Len(maintenance) < MaxMaintenanceLogs
    /\ maintenance' = Append(maintenance,
                             [slot |-> slot, start_datetime |-> start, end_datetime |-> end])
    /\ UNCHANGED <<slot_status, bookings, payments, extensions, fines, logs, notifications, rules,
                   policies, now, req, started>>

(***************************************************************************)
(* The clock.                                                              *)
(***************************************************************************)
\* A request lasts far less than a tick: the clock moves between requests.
Tick ==
    /\ \A w \in Workers : req[w].pc \in {"idle", "done"}
    /\ now < StartNow + MaxTicks * TickMinutes
    /\ now' = now + TickMinutes
    /\ req' = [w \in Workers |-> IdleReq]
    /\ UNCHANGED <<slot_status, maintenance, bookings, payments, extensions, fines, logs, notifications, rules, policies, started>>

(***************************************************************************)
(* Administrative data and inputs.                                         *)
(***************************************************************************)
Rule(loc, dow, start, end, mult) ==
    [location |-> loc, day_of_week |-> dow, start_time |-> start, end_time |-> end,
     multiplier |-> mult]

Policy(loc, minutes, pct) ==
    [location |-> loc, min_minutes_before_start |-> minutes, refund_percentage |-> pct]

\* One configuration for the concurrent specification: Monday 09:00-12:00,
\* x1.5 for location 1 and x2.0 for every location.
RuleSets ==
    { {Rule(1, 0, 9 * 60, 12 * 60, 150), Rule(NULL, 0, 9 * 60, 12 * 60, 200)} }

\* global 60 min / 50 %, location 1: 30 min / 20 %
PolicySets ==
    { {Policy(NULL, 60, 5000), Policy(1, 30, 2000)} }

\* The concurrent specification: every request is about slot 1, and the
\* windows are made of 10:00, 11:00 and 12:00 on Monday.
ContendedSlots == {1}
BookTimes == {10 * 60, 11 * 60, 12 * 60}

InitWith(RS, PS) ==
    /\ bookings = <<>>
    /\ payments = <<>>
    /\ extensions = <<>>
    /\ fines = <<>>
    /\ logs = <<>>
    /\ notifications = <<>>
    /\ slot_status = [slot \in Slots |-> SLOT_AVAILABLE]
    /\ maintenance = <<>>
    /\ rules \in RS
    /\ policies \in PS
    /\ now = StartNow
    /\ req = [w \in Workers |-> IdleReq]
    /\ started = 0

Init == InitWith(RuleSets, PolicySets)

Next ==
    \/ \E w \in Workers, slot \in ContendedSlots, entry \in BookTimes, exit \in BookTimes :
            CreateCheck(w, slot, entry, exit)
    \/ \E w \in Workers : CreateInsert(w)
    \/ \E w \in Workers : CreatePayment(w)
    \/ \E w \in Workers : CreatePaymentFails(w)
    \/ \E w \in Workers : CreateConfirm(w)
    \/ \E w \in Workers : CreateTicket(w)
    \/ \E w \in Workers : CreateTicketFails(w)
    \/ \E w \in Workers, b \in BookingIds, new_exit \in BookTimes, aware \in BOOLEAN :
            ExtendLoad(w, b, new_exit, aware)
    \/ \E w \in Workers : ExtendCheck(w)
    \/ \E w \in Workers : ExtendPayment(w)
    \/ \E w \in Workers : ExtendExtension(w)
    \/ \E w \in Workers : ExtendSave(w)
    \/ \E w \in Workers, b \in BookingIds : CancelLoad(w, b)
    \/ \E w \in Workers, b \in BookingIds : ScanLoad(w, b)
    \/ \E w \in Workers : ScanEntrySave(w)
    \/ \E w \in Workers : ScanEntryLog(w)
    \/ \E w \in Workers : ScanExitSave(w)
    \/ \E w \in Workers : ScanExitLog(w)
    \/ \E w \in Workers : ExpiryQuery(w)
    \/ \E w \in Workers : ExpiryStep(w)
    \/ \E w \in Workers : ReminderQuery(w)
    \/ \E w \in Workers : OvertimeQuery(w)
    \/ \E w \in Workers : OvertimeCheck(w)
    \/ \E w \in Workers : OvertimeFine(w)
    \/ Tick

Spec == Init /\ [][Next]_vars

(***************************************************************************)
(* The pricing specification: one worker creates and extends bookings on   *)
(* both slots, over windows and rule tables that reach every pricing case. *)
(***************************************************************************)
\* Monday 08:00, 09:00, 09:30, 12:00, 12:30 and Tuesday 09:30
PriceEntries == {8 * 60, 9 * 60, 9 * 60 + 30, 12 * 60, 12 * 60 + 30, 24 * 60 + 9 * 60 + 30}

\* Monday 10:10, 10:30, 11:00, 16:00, 18:00, 20:00 and Tuesday 10:30, 20:00
PriceExits ==
    {10 * 60 + 10, 10 * 60 + 30, 11 * 60, 16 * 60, 18 * 60, 20 * 60,
     24 * 60 + 10 * 60 + 30, 24 * 60 + 20 * 60}

PriceRuleSets ==
    { {},
      {Rule(1, 0, 9 * 60, 12 * 60, 150)},
      {Rule(1, 0, 9 * 60, 12 * 60, 150), Rule(1, 0, 9 * 60, 10 * 60, 200),
       Rule(2, 0, 9 * 60, 12 * 60, 300), Rule(1, 1, 9 * 60, 12 * 60, 120),
       Rule(1, 1, 9 * 60, 12 * 60, 50)},
      {Rule(NULL, 0, 9 * 60, 12 * 60, 150)},
      {Rule(1, NULL, 9 * 60, 12 * 60, 150)} }

PriceInit == InitWith(PriceRuleSets, PolicySets)

PriceNext ==
    \/ \E slot \in Slots, entry \in PriceEntries, exit \in PriceExits :
            started < MaxPriceRequests /\ CreateCheck(1, slot, entry, exit)
    \/ CreateInsert(1)
    \/ CreatePayment(1)
    \/ CreateConfirm(1)
    \/ CreateTicket(1)
    \/ \E b \in BookingIds, new_exit \in PriceExits :
            started < MaxPriceRequests /\ ExtendLoad(1, b, new_exit, TRUE)
    \/ ExtendCheck(1)
    \/ ExtendPayment(1)
    \/ ExtendExtension(1)
    \/ ExtendSave(1)

PriceSpec == PriceInit /\ [][PriceNext]_vars

(***************************************************************************)
(* The extension specification: one worker creates bookings on slot 1 and  *)
(* extends them, over four hours that leave room for a neighbour.          *)
(***************************************************************************)
\* Monday 10:00, 11:00, 12:00 and 13:00
ExtendTimes == {10 * 60, 11 * 60, 12 * 60, 13 * 60}

ExtendInit == InitWith(RuleSets, PolicySets)

ExtendNext ==
    \/ \E entry \in ExtendTimes, exit \in ExtendTimes :
            started < MaxExtendRequests /\ CreateCheck(1, 1, entry, exit)
    \/ CreateInsert(1)
    \/ CreatePayment(1)
    \/ CreateConfirm(1)
    \/ CreateTicket(1)
    \/ \E b \in BookingIds, new_exit \in ExtendTimes, aware \in BOOLEAN :
            started < MaxExtendRequests /\ ExtendLoad(1, b, new_exit, aware)
    \/ ExtendCheck(1)
    \/ ExtendPayment(1)
    \/ ExtendExtension(1)
    \/ ExtendSave(1)

ExtendSpec == ExtendInit /\ [][ExtendNext]_vars

(***************************************************************************)
(* The refund specification: one worker creates a booking and cancels it,  *)
(* at several distances from its start and under every table of policies   *)
(* made of the rows of PolicyPool.                                         *)
(***************************************************************************)
\* global 60 min / 50 %, location 1: 30 min / 20 %, global 0 min / 100 %,
\* location 2: 30 min / 80 %, location 1: 60 min / 30 %, and
\* location 2: 45 min / 150 % (the column is a DecimalField(5, 2) with no
\* validator: any value up to 999.99 can be stored)
PolicyPool ==
    {Policy(NULL, 60, 5000), Policy(1, 30, 2000), Policy(NULL, 0, 10000),
     Policy(2, 30, 8000), Policy(1, 60, 3000), Policy(2, 45, 15000)}

\* Monday 09:15, 09:45, 10:30 and 11:00: 15, 45 and 90 minutes after StartNow,
\* and the time of the first tick
RefundEntries == {9 * 60 + 15, 9 * 60 + 45, 10 * 60 + 30, 11 * 60}

\* Monday 12:00
RefundExits == {12 * 60}

RefundInit == InitWith(RuleSets, SUBSET PolicyPool)

RefundNext ==
    \/ \E slot \in Slots, entry \in RefundEntries, exit \in RefundExits :
            started < MaxPriceRequests /\ CreateCheck(1, slot, entry, exit)
    \/ CreateInsert(1)
    \/ CreatePayment(1)
    \/ CreateConfirm(1)
    \/ CreateTicket(1)
    \/ \E b \in BookingIds : started < MaxPriceRequests /\ CancelLoad(1, b)
    \/ Tick

RefundSpec == RefundInit /\ [][RefundNext]_vars

(***************************************************************************)
(* The sweep specification: one worker creates bookings on both slots      *)
(* (some left PENDING_PAYMENT by a failed payment insert), scans them, and *)
(* runs the two management commands, one request after the other.          *)
(***************************************************************************)
SweepInit == InitWith(RuleSets, PolicySets)

SweepNext ==
    \/ \E slot \in Slots, entry \in BookTimes, exit \in BookTimes :
            CreateCheck(1, slot, entry, exit)
    \/ CreateInsert(1)
    \/ CreatePayment(1)
    \/ CreatePaymentFails(1)
    \/ CreateConfirm(1)
    \/ CreateTicket(1)
    \/ \E b \in BookingIds : ScanLoad(1, b)
    \/ ScanEntrySave(1)
    \/ ScanEntryLog(1)
    \/ ScanExitSave(1)
    \/ ScanExitLog(1)
    \/ ExpiryQuery(1)
    \/ ExpiryStep(1)
    \/ ReminderQuery(1)
    \/ OvertimeQuery(1)
    \/ OvertimeCheck(1)
    \/ OvertimeFine(1)
    \/ Tick

SweepSpec == SweepInit /\ [][SweepNext]_vars

(***************************************************************************)
(* The progress specification: creates on slot 1, some of them left        *)
(* PENDING_PAYMENT by a failed payment insert, while cleanup_reservations  *)
(* is run again and again (cron) and the automation command a bounded      *)
(* number of times. Every started request goes on (no statement blocks),   *)
(* the clock goes on, and the sweep keeps being started. Bookings are made *)
(* before the last instant of the bounded clock, so that every reservation *)
(* runs out within it.                                                     *)
(***************************************************************************)
LastNow == StartNow + MaxTicks * TickMinutes

\* Monday 10:00 and 11:00
LiveTimes == {10 * 60, 11 * 60}

LiveInit == InitWith(RuleSets, PolicySets)

LiveCreate ==
    \E w \in Workers, entry \in LiveTimes, exit \in LiveTimes :
        now < LastNow /\ started < MaxLiveRequests /\ CreateCheck(w, 1, entry, exit)

LiveExpiry == \E w \in Workers : ExpiryBegin(w) /\ UNCHANGED started

LiveOvertime == \E w \in Workers : started < MaxLiveRequests /\ ReminderQuery(w)

LiveNext ==
    \/ LiveCreate
    \/ \E w \in Workers : CreateInsert(w)
    \/ \E w \in Workers : CreatePayment(w)
    \/ \E w \in Workers : CreatePaymentFails(w)
    \/ \E w \in Workers : CreateConfirm(w)
    \/ \E w \in Workers : CreateTicket(w)
    \/ \E w \in Workers : CreateTicketFails(w)
    \/ LiveExpiry
    \/ \E w \in Workers : ExpiryStep(w)
    \/ LiveOvertime
    \/ \E w \in Workers : OvertimeQuery(w)
    \/ \E w \in Workers : OvertimeCheck(w)
    \/ \E w \in Workers : OvertimeFine(w)
    \/ Tick

\* A request that has started takes its next step.
LiveStep(w) ==
    \/ CreateInsert(w) \/ CreatePayment(w) \/ CreatePaymentFails(w) \/ CreateConfirm(w)
    \/ CreateTicket(w) \/ CreateTicketFails(w)
    \/ ExpiryStep(w) \/ OvertimeQuery(w) \/ OvertimeCheck(w) \/ OvertimeFine(w)

LiveSpec ==
    /\ LiveInit /\ [][LiveNext]_vars
    /\ \A w \in Workers : WF_vars(LiveStep(w))
    /\ WF_vars(LiveExpiry)
    /\ WF_vars(Tick)

(***************************************************************************)
(* The administration specification: creates on slot 1 and the live-status *)
(* page of location 1, interleaved with the administration of the slot and *)
(* of its maintenance logs.                                                *)
(***************************************************************************)
\* Monday 09:00 and 11:00
MaintenanceStarts == {9 * 60, 11 * 60}

\* Monday 10:00 and 11:00
MaintenanceEnds == {10 * 60, 11 * 60}

AdminInit == InitWith(RuleSets, PolicySets)

\* The administrator's actions on slot 1.
AdminAction ==
    \/ mark_as_maintenance(1)
    \/ mark_as_available(1)
    \/ \E status \in SlotStatuses : ParkingSlotAdminChange(1, status)
    \/ \E start \in MaintenanceStarts, end \in MaintenanceEnds :
            MaintenanceSlotLogAdminAdd(1, start, end)

AdminNext ==
    \/ \E w \in Workers, entry \in BookTimes, exit \in BookTimes :
            started < MaxAdminRequests /\ CreateCheck(w, 1, entry, exit)
    \/ \E w \in Workers : CreateInsert(w)
    \/ \E w \in Workers : CreatePayment(w)
    \/ \E w \in Workers : CreatePaymentFails(w)
    \/ \E w \in Workers : CreateConfirm(w)
    \/ \E w \in Workers : CreateTicket(w)
    \/ \E w \in Workers : started < MaxAdminRequests /\ LocationDetail(w, 1)
    \/ AdminAction
    \/ Tick

AdminSpec == AdminInit /\ [][AdminNext]_vars

(***************************************************************************)
(* The slot specification: one worker serves every booking operation on    *)
(* slot 1, one request after the other, while the administrator changes    *)
(* the stored status of the slot.                                          *)
(***************************************************************************)
SlotInit == InitWith(RuleSets, PolicySets)

\* The administrator's actions on the stored status of slot 1.
SlotAdminAction ==
    \/ mark_as_maintenance(1)
    \/ mark_as_available(1)
    \/ \E status \in SlotStatuses : ParkingSlotAdminChange(1, status)

SlotNext ==
    \/ \E entry \in BookTimes, exit \in BookTimes : CreateCheck(1, 1, entry, exit)
    \/ CreateInsert(1)
    \/ CreatePayment(1)
    \/ CreatePaymentFails(1)
    \/ CreateConfirm(1)
    \/ CreateTicket(1)
    \/ \E b \in BookingIds, new_exit \in BookTimes : ExtendLoad(1, b, new_exit, TRUE)
    \/ ExtendCheck(1)
    \/ ExtendPayment(1)
    \/ ExtendExtension(1)
    \/ ExtendSave(1)
    \/ \E b \in BookingIds : CancelLoad(1, b)
    \/ \E b \in BookingIds : ScanLoad(1, b)
    \/ ScanEntrySave(1)
    \/ ScanEntryLog(1)
    \/ ScanExitSave(1)
    \/ ScanExitLog(1)
    \/ ExpiryQuery(1)
    \/ ExpiryStep(1)
    \/ ReminderQuery(1)
    \/ OvertimeQuery(1)
    \/ OvertimeCheck(1)
    \/ OvertimeFine(1)
    \/ SlotAdminAction
    \/ Tick

SlotSpec == SlotInit /\ [][SlotNext]_vars

(***************************************************************************)
(* Properties.                                                             *)
(***************************************************************************)
\* The half-open windows [entry, exit) of two rows intersect.
WindowsOverlap(a, b) ==
    /\ a.entry_datetime_expected < b.exit_datetime_expected
    /\ b.entry_datetime_expected < a.exit_datetime_expected

Ended(w, op, outcome) ==
    req[w].op = op /\ req[w].pc = "done" /\ req[w].outcome = outcome

\* C1: in every reachable state two distinct CONFIRMED bookings on the same
\* slot have windows that do not overlap.
C1_ConfirmedWindowsDisjoint ==
    \A a, b \in BookingIds :
        (/\ a # b
         /\ bookings[a].status = STATUS_CONFIRMED
         /\ bookings[b].status = STATUS_CONFIRMED
         /\ bookings[a].slot = bookings[b].slot)
        => ~WindowsOverlap(bookings[a], bookings[b])

\* C2: of two create requests for the same slot and the same window served
\* at the same time exactly one ends with a CONFIRMED booking: they never
\* both end successfully.
C2_OneConcurrentCreateWins ==
    \A v, w \in Workers :
        (v # w /\ Ended(v, "create", "success") /\ Ended(w, "create", "success"))
        => ~(/\ bookings[req[v].bid].slot = bookings[req[w].bid].slot
             /\ bookings[req[v].bid].entry_datetime_expected
                    = bookings[req[w].bid].entry_datetime_expected
             /\ bookings[req[v].bid].exit_datetime_expected
                    = bookings[req[w].bid].exit_datetime_expected)

\* C3: create rejects a valid window [entry, exit) on a slot with the conflict
\* answer exactly when some CONFIRMED booking on that slot has
\* existing.entry < exit and existing.exit > entry at the time of its overlap
\* query, and goes on to insert the booking otherwise.
C3_CreateAdmission ==
    [][\A w \in Workers, slot \in ContendedSlots, entry \in BookTimes, exit \in BookTimes :
          (entry < exit /\ CreateCheck(w, slot, entry, exit))
          => LET blocked == \E i \in 1..Len(bookings) :
                                /\ bookings[i].slot = slot
                                /\ bookings[i].status = "CONFIRMED"
                                /\ bookings[i].entry_datetime_expected < exit
                                /\ bookings[i].exit_datetime_expected > entry
             IN  /\ blocked <=> (req'[w].pc = "done" /\ req'[w].outcome = "conflict")
                 /\ ~blocked <=> (req'[w].pc = "insert")]_vars

\* C3, witness: a create is admitted (about to insert) over a window that a
\* CANCELLED or COMPLETED booking on the slot overlaps, no other request
\* having run since its overlap query.
C3_Witness ==
    \E w \in Workers, i \in BookingIds :
        /\ req[w].op = "create" /\ req[w].pc = "insert"
        /\ \A v \in Workers \ {w} : req[v].pc = "idle"
        /\ bookings[i].slot = req[w].obj.slot
        /\ bookings[i].status \in {STATUS_CANCELLED, STATUS_COMPLETED}
        /\ WindowsOverlap(bookings[i], req[w].obj)

\* C4: once a booking is CANCELLED or COMPLETED no step changes its status.
C4_TerminalStatuses ==
    [][\A i \in BookingIds :
          bookings[i].status \in {STATUS_CANCELLED, STATUS_COMPLETED}
          => bookings'[i].status = bookings[i].status]_vars

\* C5: when a create, extend or cancel ends with an error, the Booking row and
\* the Payment row it had inserted are not in the tables.
C5_AllOrNothing ==
    [][\A w \in Workers :
          (/\ req[w].op \in {"create", "extend", "cancel"}
           /\ req[w].pc # "done"
           /\ req'[w].pc = "done" /\ req'[w].outcome = "error")
          => /\ (req[w].op = "create" /\ req[w].bid # NULL) => Len(bookings') < req[w].bid
             /\ req[w].payment # NULL => Len(payments') < req[w].payment]_vars

\* C6: in every reachable state a booking has at most one UNPAID Fine.
C6_AtMostOneUnpaidFine ==
    \A b \in BookingIds :
        Cardinality({k \in 1..Len(fines) :
                        fines[k].booking = b /\ fines[k].status = STATUS_UNPAID}) <= 1

\* C7: a booking of 8 hours or more is charged
\* daily_rate * max(1, round(duration_hours / 24)), never 0.
C7_DailyBilling ==
    \A i \in BookingIds :
        bookings[i].duration_hours_booked >= 8 * 100
        => bookings[i].amount_expected =
              base_rate_per_day(SlotLocation(bookings[i].slot)) * 100
                * Max({1, RoundHalfEven(bookings[i].duration_hours_booked, 24 * 100)})

\* The rules the specification lets match: location equal or global, day of
\* week equal or any, start_time <= entry.time() <= end_time.
RulesInScope(loc, t) ==
    {r \in rules : /\ r.location \in {loc, NULL}
                   /\ r.day_of_week \in {weekday(t), NULL}
                   /\ r.start_time <= timeOfDay(t)
                   /\ timeOfDay(t) <= r.end_time}

\* C8: the multiplier create uses is max(1.0, the largest multiplier of the
\* rules in scope), global and any-day rules included.
C8_MultiplierRule ==
    \A w \in Workers :
        (req[w].op = "create" /\ req[w].pc = "insert")
        => req[w].multiplier =
              Max({100} \cup {r.multiplier :
                    r \in RulesInScope(SlotLocation(req[w].obj.slot),
                                       req[w].obj.entry_datetime_expected)})

\* C9: for a booking under 8 hours create stores duration_hours_booked =
\* (exit - entry) in hours rounded to 2 decimals and amount_expected =
\* duration_hours * hourly_rate * the multiplier it computed.
C9_HourlyBilling ==
    \A w \in Workers :
        (req[w].op = "create" /\ req[w].pc \in {"pay", "confirm", "ticket"})
        => LET row == bookings[req[w].bid]
               minutes == row.exit_datetime_expected - row.entry_datetime_expected
           IN  /\ row.duration_hours_booked = RoundHalfEven(minutes * 100, 60)
               /\ row.duration_hours_booked < 8 * 100
                  => row.amount_expected =
                        RoundHalfEven(row.duration_hours_booked
                                        * base_rate_per_hour(SlotLocation(row.slot))
                                        * req[w].multiplier, 100)

\* C9, witness: Monday 09:30-10:30 at location 1 under the x1.5 rule, stored
\* as 1.00 hour and 150.00.
C9_Witness ==
    \E w \in Workers :
        /\ req[w].op = "create" /\ req[w].pc = "pay"
        /\ bookings[req[w].bid].slot = 1
        /\ bookings[req[w].bid].entry_datetime_expected = 9 * 60 + 30
        /\ bookings[req[w].bid].exit_datetime_expected = 10 * 60 + 30
        /\ bookings[req[w].bid].duration_hours_booked = 100
        /\ bookings[req[w].bid].amount_expected = 15000
        /\ req[w].multiplier = 150

\* C10: extend charges extra_hours * hourly_rate * multiplier, extra_hours being
\* new_exit - current exit and the multiplier the one create's lookup gives at
\* new_exit; the daily rate is never applied.
C10_ExtensionPricing ==
    \A w \in Workers :
        (req[w].op = "extend" /\ req[w].pc \in {"pay", "ext", "save"})
        => LET o == req[w].obj
               loc == SlotLocation(o.slot)
               h == RoundHalfEven((req[w].new_exit - o.exit_datetime_expected) * 100, 60)
               amount == RoundHalfEven(h * base_rate_per_hour(loc)
                                         * CreateMultiplier(loc, req[w].new_exit), 100)
           IN  /\ req[w].extra_hours = h
               /\ req[w].extra_amount = amount
               /\ req[w].pc \in {"ext", "save"}
                  => /\ payments[req[w].payment].amount = amount
                     /\ payments[req[w].payment].status = STATUS_SUCCESS
                     /\ payments[req[w].payment].booking = req[w].bid

\* C10, witness: an extension of 8 hours or more priced under a multiplier
\* above 1.0, its Payment inserted.
C10_Witness ==
    \E w \in Workers :
        /\ req[w].op = "extend" /\ req[w].pc = "ext"
        /\ req[w].extra_hours >= 8 * 100
        /\ req[w].multiplier > 100
        /\ payments[req[w].payment].amount = req[w].extra_amount

\* The Payment rows of booking b.
PaymentsOf(b) == {k \in 1..Len(payments) : payments[k].booking = b}

\* C11: create inserts the booking as PENDING_PAYMENT with amount_paid 0 and a
\* reservation expiry 10 minutes ahead; when it ends successfully the booking is
\* CONFIRMED, amount_paid = amount_expected, the expiry is cleared and the
\* booking has exactly one Payment, a SUCCESS one of amount amount_expected.
C11_CreateLifecycle ==
    [][\A w \in Workers :
          req[w].op = "create"
          => /\ (req[w].pc = "insert" /\ req'[w].pc = "pay")
                => LET row == bookings'[req'[w].bid]
                   IN  /\ Len(bookings') = Len(bookings) + 1
                       /\ req'[w].bid = Len(bookings')
                       /\ row.status = "PENDING_PAYMENT"
                       /\ row.amount_paid = 0
                       /\ row.reservation_expires_at = now + 10
             /\ (req[w].pc # "done" /\ req'[w].pc = "done" /\ req'[w].outcome = "success")
                => LET row == bookings'[req[w].bid]
                   IN  /\ row.status = "CONFIRMED"
                       /\ row.amount_paid = row.amount_expected
                       /\ row.reservation_expires_at = NULL
                       /\ Cardinality(PaymentsOf(req[w].bid)') = 1
                       /\ \A k \in PaymentsOf(req[w].bid)' :
                              /\ payments'[k].status = "SUCCESS"
                              /\ payments'[k].amount = row.amount_expected]_vars

\* C11, witness: a create has ended successfully on a booking priced above 0.
C11_Witness ==
    /\ Ended(1, "create", "success")
    /\ bookings[req[1].bid].status = STATUS_CONFIRMED
    /\ bookings[req[1].bid].amount_paid > 0
    /\ Cardinality(PaymentsOf(req[1].bid)) = 1

\* C12: an extend that passed its checks and inserted its Payment and its
\* BookingExtension ends successfully: exit_datetime_expected is new_exit,
\* amount_expected and amount_paid are each larger by extra_amount, the entry
\* and the status are what they were, and the BookingExtension (extra_hours,
\* extra_amount) is linked to the SUCCESS Payment of amount extra_amount.
C12_ExtendApplies ==
    [][\A w \in Workers :
          (req[w].op = "extend" /\ req[w].pc = "save" /\ req'[w].pc = "done")
          => LET old == bookings[req[w].bid]
                 new == bookings'[req[w].bid]
                 ext == extensions'[Len(extensions')]
             IN  /\ req'[w].outcome = "success"
                 /\ new.exit_datetime_expected = req[w].new_exit
                 /\ new.amount_expected = old.amount_expected + req[w].extra_amount
                 /\ new.amount_paid = old.amount_paid + req[w].extra_amount
                 /\ new.entry_datetime_expected = old.entry_datetime_expected
                 /\ new.status = old.status
                 /\ ext.booking = req[w].bid
                 /\ ext.extra_hours = req[w].extra_hours
                 /\ ext.extra_amount = req[w].extra_amount
                 /\ payments'[ext.payment].status = "SUCCESS"
                 /\ payments'[ext.payment].amount = req[w].extra_amount]_vars

\* C13: extend is rejected as invalid exactly when new_exit <= the current
\* expected exit, and as a conflict exactly when another CONFIRMED booking on
\* the slot has entry < new_exit and exit > current exit (the booking itself
\* and a neighbour starting at new_exit do not count); a rejected extend has
\* written nothing: bookings, payments and extensions are unchanged.
C13_ExtendRejection ==
    [][\A w \in Workers :
          /\ \A b \in BookingIds, new_exit \in ExtendTimes :
                (bookings[b].status = "CONFIRMED" /\ ExtendLoad(w, b, new_exit, TRUE))
                => /\ (new_exit <= bookings[b].exit_datetime_expected)
                        <=> (req'[w].pc = "done" /\ req'[w].outcome = "invalid")
                   /\ (new_exit > bookings[b].exit_datetime_expected)
                        <=> (req'[w].pc = "check")
          /\ (req[w].op = "extend" /\ req[w].pc = "check" /\ req'[w] # req[w])
                => LET b == req[w].bid
                       blocked == \E i \in BookingIds :
                                     /\ i # b
                                     /\ bookings[i].slot = bookings[b].slot
                                     /\ bookings[i].status = "CONFIRMED"
                                     /\ bookings[i].entry_datetime_expected < req[w].new_exit
                                     /\ bookings[i].exit_datetime_expected
                                            > bookings[b].exit_datetime_expected
                   IN  /\ blocked <=> (req'[w].pc = "done" /\ req'[w].outcome = "conflict")
                       /\ ~blocked <=> (req'[w].pc = "pay")
          /\ (/\ req'[w] # req[w]
              /\ req'[w].op = "extend" /\ req'[w].pc = "done"
              /\ req'[w].outcome \in {"invalid", "conflict"})
                => /\ req[w].pc \in {"idle", "done", "check"}
                   /\ UNCHANGED <<slot_status, maintenance, bookings, payments, extensions>>]_vars

\* C13, witness: an extension is admitted up to the very start of a CONFIRMED
\* neighbour on the same slot.
C13_Witness ==
    \E w \in Workers, i \in BookingIds :
        /\ req[w].op = "extend" /\ req[w].pc = "pay"
        /\ i # req[w].bid
        /\ bookings[i].slot = bookings[req[w].bid].slot
        /\ bookings[i].status = STATUS_CONFIRMED
        /\ bookings[i].entry_datetime_expected = req[w].new_exit

\* C14: a cancel of a CONFIRMED booking at a time now >= its expected entry is
\* rejected: the booking stays CONFIRMED with the same amount_paid and no
\* Payment is created.
C14_LateCancelRejected ==
    [][\A w \in Workers, b \in BookingIds :
          (/\ bookings[b].status = "CONFIRMED"
           /\ now >= bookings[b].entry_datetime_expected
           /\ CancelLoad(w, b))
          => /\ req'[w].pc = "done" /\ req'[w].outcome = "invalid"
             /\ bookings'[b].status = "CONFIRMED"
             /\ bookings'[b].amount_paid = bookings[b].amount_paid
             /\ payments' = payments]_vars

\* C14, witness: a cancel was rejected at the very minute the booking starts.
C14_Witness ==
    \E w \in Workers :
        /\ Ended(w, "cancel", "invalid")
        /\ bookings[req[w].bid].entry_datetime_expected = now
        /\ bookings[req[w].bid].status = STATUS_CONFIRMED
        /\ bookings[req[w].bid].amount_paid > 0

\* C15: a cancel of a CONFIRMED booking before its start leaves it CANCELLED;
\* with refundable = amount_paid * pct / 100 it adds one REFUNDED Payment of
\* amount refundable and lowers amount_paid by refundable when refundable > 0,
\* and adds no Payment and keeps amount_paid when refundable = 0.
C15_CancelApplies ==
    [][\A w \in Workers, b \in BookingIds :
          (/\ bookings[b].status = "CONFIRMED"
           /\ now < bookings[b].entry_datetime_expected
           /\ CancelLoad(w, b))
          => LET refundable == RoundHalfEven(bookings[b].amount_paid * req'[w].pct, 10000)
             IN  /\ bookings'[b].status = "CANCELLED"
                 /\ refundable > 0
                    => /\ payments' = Append(payments, [booking |-> b, amount |-> refundable,
                                                         status |-> "REFUNDED"])
                       /\ bookings'[b].amount_paid
                             = Max({0, bookings[b].amount_paid - refundable})
                 /\ refundable = 0
                    => /\ payments' = payments
                       /\ bookings'[b].amount_paid = bookings[b].amount_paid]_vars

\* C16: the percentage cancel computes is the refund_percentage of a policy of
\* largest threshold among the policies of the booking's location or global
\* whose threshold is <= minutes_before, and 0 when there is none; with global
\* 60 min / 50 % and location 30 min / 20 %, 45 minutes before start it is 20 %.
C16_PolicySelection ==
    \A w \in Workers :
        Ended(w, "cancel", "error")
        => LET o == bookings[req[w].bid]
               loc == SlotLocation(o.slot)
               minutes_before == o.entry_datetime_expected - now
               scope == {p \in policies : /\ p.location = loc \/ p.location = NULL
                                          /\ p.min_minutes_before_start <= minutes_before}
           IN  /\ scope = {} => req[w].pct = 0
               /\ scope # {}
                  => \E p \in scope :
                        /\ \A q \in scope :
                              q.min_minutes_before_start <= p.min_minutes_before_start
                        /\ req[w].pct = p.refund_percentage
               /\ (/\ policies = {Policy(NULL, 60, 5000), Policy(1, 30, 2000)}
                   /\ loc = 1 /\ minutes_before = 45)
                  => req[w].pct = 2000

\* C16, witness: the cancel of a booking of location 1, 45 minutes before its
\* start, under global 60 min / 50 % and location 1: 30 min / 20 %.
C16_Witness ==
    \E w \in Workers :
        /\ Ended(w, "cancel", "error")
        /\ policies = {Policy(NULL, 60, 5000), Policy(1, 30, 2000)}
        /\ bookings[req[w].bid].slot = 1
        /\ bookings[req[w].bid].entry_datetime_expected - now = 45
        /\ req[w].pct = 2000

\* The distances from the start at which the refund percentage is compared.
RefundMinutes == {0, 15, 29, 30, 31, 45, 59, 60, 61, 90}

PoliciesOrdered(loc) ==
    \A p \in policies, q \in policies :
        (/\ p.location \in {loc, NULL}
         /\ q.location \in {loc, NULL}
         /\ p.min_minutes_before_start <= q.min_minutes_before_start)
        => p.refund_percentage <= q.refund_percentage

C18_RoundTrip ==
    \A w \in Workers :
        (/\ req[w].op = "cancel" /\ req[w].pc = "done"
         /\ req[w].outcome \notin {"notfound", "invalid"}
         /\ Policy(NULL, 0, 10000) \in policies
         /\ req[w].pct = 10000)
        => /\ bookings[req[w].bid].amount_paid = 0
           /\ \E k \in PaymentsOf(req[w].bid) :
                 /\ payments[k].status = "REFUNDED"
                 /\ payments[k].amount = bookings[req[w].bid].amount_expected

\* C19: in every reachable state amount_paid <= amount_expected for every
\* booking.
C19_PaidWithinExpected ==
    \A i \in BookingIds : bookings[i].amount_paid <= bookings[i].amount_expected

\* C19, witness: a booking paid in full whose extension went as far as its
\* BookingExtension row, next to a booking that was completed by a scan.
C19_Witness ==
    \E i \in BookingIds, j \in BookingIds, k \in 1..Len(extensions) :
        /\ extensions[k].booking = i
        /\ bookings[i].amount_paid = bookings[i].amount_expected
        /\ bookings[i].amount_paid > 0
        /\ bookings[j].status = STATUS_COMPLETED

\* C20: every persisted booking has exit_datetime_expected >
\* entry_datetime_expected: a create with exit <= entry is answered as invalid
\* and writes nothing, and no step moves the expected exit of a booking earlier.
C20_ExitAfterEntry ==
    [][/\ \A i \in 1..Len(bookings') :
             bookings'[i].exit_datetime_expected > bookings'[i].entry_datetime_expected
       /\ \A i \in BookingIds :
             bookings'[i].exit_datetime_expected >= bookings[i].exit_datetime_expected
       /\ \A w \in Workers, slot \in ContendedSlots, entry \in BookTimes, exit \in BookTimes :
             (exit <= entry /\ CreateCheck(w, slot, entry, exit))
             => /\ req'[w].pc = "done" /\ req'[w].outcome = "invalid"
                /\ UNCHANGED <<slot_status, maintenance, bookings, payments>>]_vars

\* C20, witness: a create with exit <= entry was answered as invalid, and left
\* the table with the one booking it had.
C20_Witness ==
    \E w \in Workers :
        /\ Ended(w, "create", "invalid")
        /\ req[w].bid = NULL
        /\ Len(bookings) = 1
        /\ bookings[1].exit_datetime_expected > bookings[1].entry_datetime_expected

\* C21: no step changes or deletes an existing Payment row: the table only
\* grows, a row added by create or extend is SUCCESS and any other new row is
\* REFUNDED.
C21_PaymentsAppendOnly ==
    [][/\ Len(payments') >= Len(payments)
       /\ \A k \in 1..Len(payments) : payments'[k] = payments[k]
       /\ \A k \in (Len(payments) + 1)..Len(payments') :
             \/ /\ payments'[k].status = "SUCCESS"
                /\ \E w \in Workers : req[w].op \in {"create", "extend"} /\ req[w].pc = "pay"
             \/ payments'[k].status = "REFUNDED"]_vars

\* C21, witness: the Payment of a create and the Payment of an extend of the
\* same booking, both SUCCESS, after that extend has ended.
C21_Witness ==
    \E w \in Workers, j \in 1..Len(payments), k \in 1..Len(payments) :
        /\ req[w].op = "extend" /\ req[w].pc = "done"
        /\ j < k
        /\ payments[j].booking = req[w].bid /\ payments[k].booking = req[w].bid
        /\ payments[j].status = STATUS_SUCCESS /\ payments[k].status = STATUS_SUCCESS
        /\ payments[j].amount = bookings[req[w].bid].amount_expected

\* The EntryExitLog rows of booking b of one event type.
LogsOf(b, event_type) ==
    {k \in 1..Len(logs) : logs[k].booking = b /\ logs[k].event_type = event_type}

\* C22: once actual_entry_datetime is set no step changes it, and a booking
\* never has more than one EntryExitLog(ENTRY) row.
C22_EntryOnce ==
    [][\A b \in BookingIds :
          /\ bookings[b].actual_entry_datetime # NULL
             => bookings'[b].actual_entry_datetime = bookings[b].actual_entry_datetime
          /\ Cardinality(LogsOf(b, "ENTRY")') <= 1]_vars

\* C23: in every reachable state a booking with actual_exit_datetime set has
\* actual_entry_datetime set and is COMPLETED as the exit scan left it, and
\* every EXIT log of a booking comes after an ENTRY log of that booking.
C23_ExitAfterEntryScan ==
    /\ \A b \in BookingIds :
          bookings[b].actual_exit_datetime # NULL
          => bookings[b].actual_entry_datetime # NULL
    /\ \A k \in 1..Len(logs) :
          logs[k].event_type = "EXIT"
          => \E j \in 1..(k - 1) :
                logs[j].booking = logs[k].booking /\ logs[j].event_type = "ENTRY"


\* The reservation of booking b ran out before the clock's time.
PastExpiry(b) ==
    /\ bookings[b].status = "PENDING_PAYMENT"
    /\ bookings[b].reservation_expires_at # NULL
    /\ bookings[b].reservation_expires_at < now

\* C24: every step of a run of the expiry sweep changes nothing but the
\* status, to CANCELLED, of bookings that are PENDING_PAYMENT with
\* reservation_expires_at < now; it creates no Payment, and when the run ends
\* no such booking is left.
C24_ExpirySweep ==
    [][\A w \in Workers :
          (ExpiryQuery(w) \/ ExpiryStep(w)) =>
              /\ payments' = payments
              /\ Len(bookings') = Len(bookings)
              /\ \A b \in BookingIds :
                    \/ bookings'[b] = bookings[b]
                    \/ /\ PastExpiry(b)
                       /\ bookings'[b] = [bookings[b] EXCEPT !.status = "CANCELLED"]
              /\ req'[w].pc = "done" => \A b \in BookingIds : ~PastExpiry(b)']_vars

\* A run ended that cancelled one booking and left alone a PENDING_PAYMENT
\* booking whose reservation still holds.
C24_Witness ==
    /\ \E w \in Workers : Ended(w, "expiry", "success")
    /\ \E a, b \in BookingIds :
          /\ bookings[a].status = "CANCELLED"
          /\ PaymentsOf(a) = {}
          /\ bookings[b].status = "PENDING_PAYMENT"
          /\ bookings[b].reservation_expires_at >= now

\* The UNPAID fines of booking b in a table of fines.
UnpaidFines(table, b) ==
    {k \in 1..Len(table) : table[k].booking = b /\ table[k].status = "UNPAID"}

\* Booking b is CONFIRMED and its window ended before the clock's time.
PastExit(b) ==
    /\ bookings[b].status = "CONFIRMED"
    /\ bookings[b].exit_datetime_expected < now

\* C25: every step of a run of the overtime sweep changes no booking and no
\* payment; a fine it creates is UNPAID, of the location's hourly rate, for a
\* CONFIRMED booking with exit_datetime_expected < now that had no UNPAID
\* fine; and when the run ends every such booking has exactly one UNPAID fine.
C25_OvertimeSweep ==
    [][\A w \in Workers :
          (ReminderQuery(w) \/ OvertimeQuery(w) \/ OvertimeCheck(w) \/ OvertimeFine(w)) =>
              /\ bookings' = bookings
              /\ payments' = payments
              /\ Len(fines') \in {Len(fines), Len(fines) + 1}
              /\ \A k \in 1..Len(fines) : fines'[k] = fines[k]
              /\ Len(fines') = Len(fines) + 1 =>
                    LET f == fines'[Len(fines')]
                    IN  /\ f.booking \in BookingIds
                        /\ PastExit(f.booking)
                        /\ UnpaidFines(fines, f.booking) = {}
                        /\ f.status = "UNPAID"
                        /\ f.amount = base_rate_per_hour(SlotLocation(bookings[f.booking].slot)) * 100
              /\ req'[w].pc = "done" =>
                    \A b \in BookingIds :
                        PastExit(b) => Cardinality(UnpaidFines(fines', b)) = 1]_vars

\* A run ended that fined one booking and not the other, which was never paid.
C25_Witness ==
    /\ \E w \in Workers : Ended(w, "overtime", "success")
    /\ \E a, b \in BookingIds :
          /\ PastExit(a)
          /\ Cardinality(UnpaidFines(fines, a)) = 1
          /\ bookings[b].status = "PENDING_PAYMENT"
          /\ bookings[b].exit_datetime_expected < now
          /\ UnpaidFines(fines, b) = {}

\* C26: a sweep started when the same sweep has just ended, at the same time
\* and with nothing in between, changes no Booking, no Fine and no
\* notification record: the expiry sweep finds no row, and the automation
\* command sends no reminder and finds no booking left to fine.
C26_SweepsIdempotent ==
    [][\A w \in Workers :
          /\ (Ended(w, "expiry", "success") /\ ExpiryQuery(w)) =>
                /\ req'[w].pc = "done"
                /\ bookings' = bookings /\ fines' = fines /\ notifications' = notifications
          /\ (Ended(w, "overtime", "success") /\ ReminderQuery(w)) =>
                /\ bookings' = bookings /\ fines' = fines /\ notifications' = notifications
                /\ \A b \in BookingIds : PastExit(b) => UnpaidFines(fines, b) # {}]_vars

\* C27: an extend or a cancel of a booking that is not CONFIRMED is answered as
\* not found, a scan of a booking that is not CONFIRMED is rejected, and none of
\* them changes a Booking, Payment, BookingExtension or EntryExitLog row.
C27_StatusGuards ==
    [][\A w \in Workers, b \in BookingIds :
          bookings[b].status # "CONFIRMED" =>
              /\ (\E new_exit \in BookTimes, aware \in BOOLEAN : ExtendLoad(w, b, new_exit, aware))
                    => (req'[w].pc = "done" /\ req'[w].outcome = "notfound")
              /\ CancelLoad(w, b)
                    => (req'[w].pc = "done" /\ req'[w].outcome = "notfound")
              /\ ScanLoad(w, b)
                    => (req'[w].pc = "done" /\ req'[w].outcome \notin {"entry", "exit"})]_vars

\* C28: a create that has confirmed its booking ends with success whether or
\* not the ticket could be generated, and leaves the booking CONFIRMED with a
\* SUCCESS Payment and amount_paid = amount_expected.
C28_TicketFailureSwallowed ==
    [][\A w \in Workers :
          (CreateTicket(w) \/ CreateTicketFails(w)) =>
              /\ req'[w].outcome = "success"
              /\ bookings'[req[w].bid].status = "CONFIRMED"
              /\ bookings'[req[w].bid].amount_paid = bookings'[req[w].bid].amount_expected
              /\ \E k \in PaymentsOf(req[w].bid) : payments[k].status = "SUCCESS"]_vars

\* The sum of the amounts of the rows of table whose indexes are in S.
RECURSIVE SumAmounts(_, _)
SumAmounts(table, S) ==
    IF S = {} THEN 0
    ELSE LET k == CHOOSE x \in S : TRUE
         IN  table[k].amount + SumAmounts(table, S \ {k})

\* The payments of booking b received less the payments refunded, never below 0.
NetPaid(b) ==
    LET received == SumAmounts(payments, {k \in PaymentsOf(b) : payments[k].status = "SUCCESS"})
        refunded == SumAmounts(payments, {k \in PaymentsOf(b) : payments[k].status = "REFUNDED"})
    IN  IF received > refunded THEN received - refunded ELSE 0

\* C29: in every reachable state the amount_paid of a CONFIRMED or CANCELLED
\* booking is the sum of its SUCCESS payments less the sum of its REFUNDED
\* payments, never below 0.
C29_PaidMatchesPayments ==
    \A b \in BookingIds :
        bookings[b].status \in {"CONFIRMED", "CANCELLED"} => bookings[b].amount_paid = NetPaid(b)

\* C30: a create whose window overlaps, on the same slot, a PENDING_PAYMENT
\* booking whose reservation has not expired is answered as a conflict.
C30_PendingBlocksCreate ==
    [][\A w \in Workers, slot \in Slots, entry \in BookTimes, exit \in BookTimes :
          (/\ CreateCheck(w, slot, entry, exit)
           /\ entry < exit
           /\ \E i \in BookingIds :
                 /\ bookings[i].slot = slot
                 /\ bookings[i].status = "PENDING_PAYMENT"
                 /\ bookings[i].reservation_expires_at >= now
                 /\ bookings[i].entry_datetime_expected < exit
                 /\ entry < bookings[i].exit_datetime_expected)
          => (req'[w].pc = "done" /\ req'[w].outcome = "conflict")]_vars

\* C31: no booking has status NO_SHOW in any state reached through create,
\* extend, cancel, the scans and the two sweeps.
C31_NeverNoShow ==
    \A b \in BookingIds : bookings[b].status # "NO_SHOW"

\* A booking was completed by an exit scan and an expiry sweep has ended.
C31_Witness ==
    /\ \E b \in BookingIds : bookings[b].status = "COMPLETED"
    /\ \E w \in Workers : Ended(w, "expiry", "success")

\* Booking b exists and is PENDING_PAYMENT.
StillPending(b) == b \in BookingIds /\ bookings[b].status = "PENDING_PAYMENT"

\* C33: with the expiry sweep started again and again, a booking that is
\* PENDING_PAYMENT with its reservation expiry in the past leaves
\* PENDING_PAYMENT, no booking stays PENDING_PAYMENT for ever, and every run
\* of a sweep comes to its end.
C33_PendingReclaimed ==
    /\ \A b \in 1..MaxBookings : (b \in BookingIds /\ PastExpiry(b)) ~> ~StillPending(b)
    /\ \A b \in 1..MaxBookings : StillPending(b) ~> ~StillPending(b)
    /\ \A w \in Workers :
          (req[w].op \in {"expiry", "overtime"} /\ req[w].pc # "done")
              ~> (req[w].pc \in {"done", "idle"})

\* A booking whose payment failed and whose reservation ran out was cancelled
\* by a run of the sweep that has ended.
C33_Witness ==
    /\ \E w \in Workers : Ended(w, "expiry", "success")
    /\ \E b \in BookingIds :
          /\ bookings[b].status = "CANCELLED"
          /\ bookings[b].reservation_expires_at # NULL
          /\ bookings[b].reservation_expires_at < now

\* C34: every CONFIRMED booking has amount_paid = amount_expected and no
\* reservation expiry, whatever creates, extends, cancels, scans and sweeps
\* were served.
C34_ConfirmedPaidInFull ==
    \A b \in BookingIds :
        bookings[b].status = "CONFIRMED" =>
            /\ bookings[b].amount_paid = bookings[b].amount_expected
            /\ bookings[b].reservation_expires_at = NULL

\* A CONFIRMED booking after an extend of it that wrote its BookingExtension
\* row and a cancel of it that was answered.
C34_Witness ==
    \E b \in BookingIds, k \in 1..Len(extensions), w \in Workers :
        /\ bookings[b].status = "CONFIRMED"
        /\ extensions[k].booking = b
        /\ req[w].op = "cancel" /\ req[w].pc = "done" /\ req[w].bid = b

\* C35: in every reachable state a booking is COMPLETED if and only if its
\* actual_exit_datetime is set.
C35_CompletedIffExited ==
    \A b \in BookingIds :
        bookings[b].status = "COMPLETED" <=> bookings[b].actual_exit_datetime # NULL

\* C36: when the overtime sweep writes a Fine, its booking is at that moment
\* CONFIRMED with exit_datetime_expected < now, and when the expiry sweep
\* writes CANCELLED, its booking is at that moment PENDING_PAYMENT.
C36_SweepWritesGuarded ==
    [][\A w \in Workers :
          /\ OvertimeFine(w) => PastExit(Head(req[w].todo))
          /\ ExpiryStep(w) => bookings[Head(req[w].todo)].status = "PENDING_PAYMENT"]_vars

\* C37: the refund percentage that a cancel resolves lies in [0, 100], and a
\* REFUNDED Payment that a cancel creates is of at most the amount_paid of
\* the booking before the cancel.
C37_RefundWithinPaid ==
    [][\A w \in Workers, b \in BookingIds :
          (/\ CancelLoad(w, b)
           /\ bookings[b].status = "CONFIRMED"
           /\ ~CancelTooLate(bookings[b].entry_datetime_expected))
          => /\ req'[w].pct \in 0..(100 * 100)
             /\ \A k \in (Len(payments) + 1)..Len(payments') :
                   payments'[k].status = "REFUNDED" => payments'[k].amount <= bookings[b].amount_paid]_vars

\* The sum of extra_hours over the BookingExtension rows whose indexes are in S.
RECURSIVE SumExtraHours(_)
SumExtraHours(S) ==
    IF S = {} THEN 0
    ELSE LET k == CHOOSE x \in S : TRUE
         IN  extensions[k].extra_hours + SumExtraHours(S \ {k})

\* C38: for every booking the hours from entry_datetime_expected to
\* exit_datetime_expected are duration_hours_booked plus the extra_hours of
\* its BookingExtension rows.
C38_HoursAddUp ==
    \A b \in BookingIds :
        duration_hours(bookings[b].entry_datetime_expected, bookings[b].exit_datetime_expected)
            = bookings[b].duration_hours_booked
              + SumExtraHours({k \in 1..Len(extensions) : extensions[k].booking = b})


\* A maintenance log of the slot covers the clock's time.
UnderMaintenance(slot) ==
    \E k \in 1..Len(maintenance) :
        /\ maintenance[k].slot = slot
        /\ maintenance[k].start_datetime <= now
        /\ (maintenance[k].end_datetime = NULL \/ maintenance[k].end_datetime >= now)

\* A CONFIRMED booking of the slot overlaps the window [entry, exit).
ConfirmedOverlap(slot, entry, exit) ==
    \E i \in BookingIds :
        /\ bookings[i].slot = slot
        /\ bookings[i].status = "CONFIRMED"
        /\ bookings[i].entry_datetime_expected < exit
        /\ entry < bookings[i].exit_datetime_expected

\* C32: whether a create is admitted, and the amount it computes, are given by
\* the window, the CONFIRMED bookings of the slot and the pricing rules alone,
\* whatever the stored status of the slot and its maintenance logs; and the
\* live-status page shows MAINTENANCE for a slot exactly when a maintenance
\* log covers now, booked or not.
C32_CreateIgnoresSlotState ==
    [][/\ \A w \in Workers, slot \in Slots, entry \in BookTimes, exit \in BookTimes :
            CreateCheck(w, slot, entry, exit) =>
                IF entry >= exit
                THEN req'[w].pc = "done" /\ req'[w].outcome = "invalid"
                ELSE IF ConfirmedOverlap(slot, entry, exit)
                THEN req'[w].pc = "done" /\ req'[w].outcome = "conflict"
                ELSE /\ req'[w].pc = "insert"
                     /\ req'[w].obj.amount_expected =
                            AmountExpected(SlotLocation(slot), duration_hours(entry, exit),
                                           CreateMultiplier(SlotLocation(slot), entry))
       /\ \A w \in Workers, loc \in Locations :
            LocationDetail(w, loc) =>
                \A slot \in DOMAIN req'[w].current_status :
                    req'[w].current_status[slot] = "MAINTENANCE" <=> UnderMaintenance(slot)]_vars

\* A create was admitted on slot 1 while the slot is stored as MAINTENANCE and
\* under a maintenance log, and the page shows the slot, which a CONFIRMED
\* booking occupies now, as MAINTENANCE.
C32_Witness ==
    \E v, w \in Workers :
        /\ req[v].op = "create" /\ req[v].pc = "insert" /\ req[v].obj.slot = 1
        /\ slot_status[1] = "MAINTENANCE"
        /\ UnderMaintenance(1)
        /\ Ended(w, "detail", "shown")
        /\ req[w].current_status[1] = "MAINTENANCE"
        /\ \E i \in BookingIds :
              /\ bookings[i].slot = 1 /\ bookings[i].status = "CONFIRMED"
              /\ bookings[i].entry_datetime_expected <= now
              /\ now <= bookings[i].exit_datetime_expected

====
